---- MODULE Spec2Model ----
(***************************************************************************)
(* The pika Connection protocol engine (pika/connection.py) as a state     *)
(* machine.  One action per entry point of the engine: the adapter's       *)
(* _on_connected, on_data_available and transport-closure report, and the  *)
(* user's close, channel, send_method and add_on_close_callback.           *)
(* Further specifications over the same variables exercise the handshake  *)
(* with every client parameter set, the publishing of content, the inbound *)
(* byte stream cut into chunks, a user's rpc, reconnect, the heartbeat     *)
(* checker, and the field tables of pika/table.py.                         *)
(*                                                                         *)
(* A handler is an operator from a connection record to a connection       *)
(* record; an action applies one handler to the current state.  Frames are *)
(* records; on_data_available takes a chunk holding whole frames and       *)
(* on_data_available_bytes the bytes of a chunk cut anywhere.              *)
(***************************************************************************)
EXTENDS Integers, Sequences, FiniteSets, TLC

VARIABLES
    parameters,       \* Connection.parameters: the ConnectionParameters passed in
    open,             \* Connection.open
    closing,          \* Connection.closing: <<>> for False, else <<code, text>>
    closed,           \* Connection.closed
    _channels,        \* Connection._channels: the set of its keys
    callbacks,        \* the CallbackManager singleton: <<prefix, key>> -> entries
    first_written,    \* the first frame written to outbound_buffer since
                      \* _init_connection_state, <<>> while there is none
    handshake,        \* observer: the handshake frames written since
                      \* _init_connection_state, by kind, in order
    state,            \* codec.ConnectionState: channel_max, frame_max
    heartbeat,        \* Connection.heartbeat: 0 for None, else the interval
    transport,        \* the adapter's socket: connecting, connected, closed
    last_op,          \* observer: the entry point that ran last, with its arguments
    pre,              \* observer: flags, close reason, _channels and the pending
                      \* channel-0 method keys before it ran
    emitted,          \* observer: frames it passed to _send_frame, in order
    fired,            \* observer: lifecycle callbacks it invoked, in order
    disconnects,      \* observer: number of disconnect() calls it made
    raised,           \* observer: the exception that left it, "" for none
    buffer,           \* Connection.buffer: the inbound bytes not yet decoded
    bytes_received,   \* Connection.bytes_received
    dispatched,       \* observer: the frames decoded from inbound bytes since
                      \* construction, each with the exception its dispatch raised
    stream,           \* the bytes the server sends on this connection
    fed,              \* how many of them the adapter has handed over
    checker,          \* the HeartbeatChecker created last: its fields, its
                      \* pending timers and what it passed to _terminate_stream;
                      \* <<>> while none was created
    table,            \* a field table handed to encode_table
    roundtrip         \* what encode_table and decode_table made of it, <<>>
                      \* before they ran

vars == <<parameters, open, closing, closed, _channels, callbacks,
          first_written, handshake, state, heartbeat, transport, last_op, pre,
          emitted, fired, disconnects, raised, buffer, bytes_received,
          dispatched, stream, fed, checker, table, roundtrip>>

----------------------------------------------------------------------------
(* Bounds *)

\* channel numbers the user and the server name; allocation stops above it
MaxChannel == 2
\* frames per chunk handed to on_data_available
MaxChunk == 1

(* Program constants *)

CHANNEL_MAX == 32767
FRAME_MAX == 131072

\* close(code=200, text='Normal shutdown')
DefaultReason == <<200, "Normal shutdown">>
\* the reason a server gives in Connection.Close
RemoteReason == <<320, "CONNECTION_FORCED">>

\* ConnectionParameters(host, credentials, channel_max, frame_max, heartbeat);
\* credentials is "None" or names the credentials object passed in
ConnectionParameters(credentials, channel_max, frame_max, interval) ==
    [credentials |-> credentials, channel_max |-> channel_max,
     frame_max |-> frame_max, heartbeat |-> interval]

\* ConnectionParameters(host): credentials=None, channel_max=0,
\* frame_max=131072, heartbeat=0
DefaultParameters == ConnectionParameters("None", 0, 131072, 0)

\* spec.PROTOCOL_VERSION
PROTOCOL_VERSION == <<0, 9>>

\* codec.ConnectionState.HEADER_SIZE and FOOTER_SIZE
HEADER_SIZE == 7
FOOTER_SIZE == 1

----------------------------------------------------------------------------
(* Frames *)

Frame(type, channel_number, method, args) ==
    [type |-> type, channel_number |-> channel_number,
     method |-> method, args |-> args]

FrameProtocolHeader == Frame("ProtocolHeader", 0, "", <<>>)
FrameMethod(channel_number, method, args) ==
    Frame("Method", channel_number, method, args)
FrameHeartbeat == Frame("Heartbeat", 0, "", <<>>)
\* codec.FrameHeader(channel_number, length, props)
FrameHeader(channel_number, length, props) ==
    Frame("Header", channel_number, "", <<length, props>>)
\* codec.FrameBody(channel_number, piece)
FrameBody(channel_number, piece) == Frame("Body", channel_number, "", piece)

\* None
None == <<>>

IsMethod(f, name) == f.type = "Method" /\ f.method = name

\* the positions of seq holding a frame of that method
Positions(seq, name) == {i \in 1..Len(seq) : IsMethod(seq[i], name)}

Truthy(v) == v # <<>>

\* the kind of a frame of the opening handshake, "" for any other frame
HandshakeKind(frame) ==
    IF frame.type = "ProtocolHeader" THEN "ProtocolHeader"
    ELSE IF frame.type = "Method" /\ frame.channel_number = 0
            /\ frame.method \in {"Connection.StartOk", "Connection.TuneOk",
                                 "Connection.Open"}
    THEN frame.method
    ELSE ""

----------------------------------------------------------------------------
(* The callback registry (pika/callback.py) *)

\* the <<prefix, key>> pairs the engine registers callbacks under; a pair
\* outside them has no entries
LifecycleKeys == {"_on_connection_open", "_on_connection_closed"}
ConnectionKeys == {"Connection.Start", "Connection.Tune", "Connection.OpenOk",
                   "Connection.Close", "Connection.CloseOk"}
\* the replies a user's rpc of Basic.Get accepts
GetReplies == <<"Basic.GetOk", "Basic.GetEmpty">>
CallbackKeys == ({0} \X (LifecycleKeys \cup ConnectionKeys))
                \cup ((1..MaxChannel) \X {"Channel.CloseOk"})
                \cup ({1} \X {GetReplies[i] : i \in 1..Len(GetReplies)})

NoCallbacks == [k \in CallbackKeys |-> <<>>]

Entries(s, prefix, key) ==
    IF <<prefix, key>> \in CallbackKeys THEN s.callbacks[<<prefix, key>>]
    ELSE <<>>

\* add(prefix, key, callback, one_shot): append; a duplicate entry is dropped
callbacks_add(s, prefix, key, callback, one_shot) ==
    LET entry == [handle |-> callback, one_shot |-> one_shot]
        list == Entries(s, prefix, key)
    IN IF \E i \in 1..Len(list) : list[i] = entry
       THEN s
       ELSE [s EXCEPT !.callbacks[<<prefix, key>>] = Append(list, entry)]

\* remove(prefix, key, callback): drop every entry of that callable; nothing
\* happens when there is none
callbacks_remove(s, prefix, key, callback) ==
    LET list == Entries(s, prefix, key)
    IN IF list = <<>> THEN s
       ELSE [s EXCEPT !.callbacks[<<prefix, key>>] =
                SelectSeq(list, LAMBDA e : e.handle # callback)]

\* pending(prefix, key)
callbacks_pending(s, prefix, key) == Len(Entries(s, prefix, key)) > 0

\* the call of one registered callback, defined with the handlers below
RECURSIVE Invoke(_, _, _)

\* process(prefix, key, caller, args): call the entries registered when the
\* dispatch starts, in insertion order, up to one that raises, then drop the
\* one-shot ones among them, whether they raised or not
callbacks_process(s, prefix, key, arg) ==
    LET list == Entries(s, prefix, key)
        run[i \in 0..Len(list)] ==
            IF i = 0 THEN s
            ELSE IF run[i - 1].raised # "" THEN run[i - 1]
            ELSE Invoke(run[i - 1], list[i].handle, arg)
        after == run[Len(list)]
        gone == {i \in 1..Len(list) : list[i].one_shot}
    IN IF list = <<>> THEN s
       ELSE [after EXCEPT !.callbacks[<<prefix, key>>] =
                SelectSeq(@, LAMBDA e : ~(\E i \in gone : list[i] = e))]

----------------------------------------------------------------------------
(* The connection record the handlers work on *)

Cur == [parameters |-> parameters, handshake |-> handshake,
        open |-> open, closing |-> closing, closed |-> closed,
        _channels |-> _channels, callbacks |-> callbacks,
        first_written |-> first_written, state |-> state,
        heartbeat |-> heartbeat, transport |-> transport,
        buffer |-> buffer, bytes_received |-> bytes_received,
        dispatched |-> dispatched, fed |-> fed, checker |-> checker,
        emitted |-> <<>>, fired |-> <<>>, disconnects |-> 0, raised |-> ""]

Snapshot == [open |-> open, closing |-> closing, closed |-> closed,
             _channels |-> _channels,
             pending |-> {k \in ConnectionKeys : Len(callbacks[<<0, k>>]) > 0}]

\* is_open()
is_open(s) == s.open /\ (~Truthy(s.closing) /\ ~s.closed)

Raise(s, exception) == [s EXCEPT !.raised = exception]

\* the adapter's disconnect(): a request; the adapter reports the closure later
disconnect(s) == [s EXCEPT !.disconnects = @ + 1]

\* _send_frame(frame): append to the outbound buffer and flush
_send_frame(s, frame) ==
    [s EXCEPT !.first_written = IF @ = <<>> THEN <<frame>> ELSE @,
              !.handshake = IF HandshakeKind(frame) # ""
                            THEN Append(@, HandshakeKind(frame)) ELSE @,
              !.emitted = Append(@, frame)]

\* min(a, b)
min(a, b) == IF a < b THEN a ELSE b

\* the loop of send_method over body_buf: the pieces written while the buffer
\* is not empty.  With a max_piece below 1 piece_len is not positive and no
\* turn of the loop shortens the buffer: the call does not complete, which
\* is recorded as the exception "max_piece < 1"
RECURSIVE send_body(_, _, _, _)
send_body(s, channel_number, body_buf, max_piece) ==
    IF Len(body_buf) = 0 THEN s
    ELSE IF max_piece < 1 THEN Raise(s, "max_piece < 1")
    ELSE LET piece_len == min(Len(body_buf), max_piece)
             piece == SubSeq(body_buf, 1, piece_len)
         IN send_body(_send_frame(s, FrameBody(channel_number, piece)),
                      channel_number,
                      SubSeq(body_buf, piece_len + 1, Len(body_buf)),
                      max_piece)

\* content as send_method takes it: None, the tuple (props, body) written
\* <<"tuple", props, body>>, or a bare body written <<"str", body>>
isinstance_tuple(content) == content # None /\ content[1] = "tuple"

\* send_method that leaves the frame's end marker out of max_piece
send_method_no_footer(s, channel_number, method, args, content) ==
    LET s1 == _send_frame(s, FrameMethod(channel_number, method, args))
        props == IF isinstance_tuple(content) THEN content[2] ELSE None
        body == IF isinstance_tuple(content) THEN content[3]
                ELSE IF content # None THEN content[2] ELSE None
        length == IF Truthy(body) THEN Len(body) ELSE 0
        s2 == IF Truthy(props)
              THEN _send_frame(s1, FrameHeader(channel_number, length, props))
              ELSE s1
        max_piece == s.state.frame_max - HEADER_SIZE
    IN IF Truthy(body) THEN send_body(s2, channel_number, body, max_piece)
       ELSE s2

\* send_method(channel_number, method, content)
send_method(s, channel_number, method, args, content) ==
    LET s1 == _send_frame(s, FrameMethod(channel_number, method, args))
        props == IF isinstance_tuple(content) THEN content[2] ELSE None
        body == IF isinstance_tuple(content) THEN content[3]
                ELSE IF content # None THEN content[2] ELSE None
        length == IF Truthy(body) THEN Len(body) ELSE 0
        s2 == IF Truthy(props)
              THEN _send_frame(s1, FrameHeader(channel_number, length, props))
              ELSE s1
        max_piece == s.state.frame_max - HEADER_SIZE - FOOTER_SIZE
    IN IF Truthy(body) THEN send_body(s2, channel_number, body, max_piece)
       ELSE s2

\* rpc(callback, channel_number, method, acceptable_replies); the replies are
\* registered in the order of the list, one-shot
rpc(s, callback, channel_number, method, args, acceptable_replies) ==
    LET add[i \in 0..Len(acceptable_replies)] ==
            IF i = 0 THEN s
            ELSE callbacks_add(add[i - 1], channel_number,
                               acceptable_replies[i], callback, TRUE)
    IN send_method(IF callback # "" THEN add[Len(acceptable_replies)] ELSE s,
                   channel_number, method, args, None)

\* _on_connected()
_on_connected(s) == _send_frame(s, FrameProtocolHeader)

\* _on_connection_open(frame)
_on_connection_open(s, frame) ==
    LET s1 == callbacks_add(s, 0, "Connection.Close", "_on_remote_close", TRUE)
        s2 == [s1 EXCEPT !.open = TRUE]
    IN callbacks_process(s2, 0, "_on_connection_open", "connection")

\* the module-wide default_credentials = PlainCredentials('guest', 'guest')
default_credentials == "PlainCredentials"

\* credentials.response_for(start): PlainCredentials answer a Start that
\* offers PLAIN with (mechanism, response), any other with None
response_for(credentials, start) ==
    IF credentials = "PlainCredentials" /\ "PLAIN" \in start[3]
    THEN <<"PLAIN", "response">>
    ELSE None

\* _on_connection_start(frame); the args of Connection.Start are
\* version_major, version_minor and the mechanisms offered
_on_connection_start(s, frame) ==
    LET s1 == [s EXCEPT !.closed = FALSE]
        credentials == IF s.parameters.credentials # "None"
                       THEN s.parameters.credentials
                       ELSE default_credentials
        response == response_for(credentials, frame.args)
        s2 == callbacks_add(s1, 0, "Connection.Tune", "_on_connection_tune", TRUE)
    IN IF frame.type = "ProtocolHeader"
       THEN Raise(s1, "ProtocolVersionMismatch")
       ELSE IF <<frame.args[1], frame.args[2]>> # PROTOCOL_VERSION
       THEN Raise(s1, "ProtocolVersionMismatch")
       ELSE IF ~Truthy(response)
       THEN \* the message of LoginError reads parameters.credentials.TYPE
            IF s.parameters.credentials = "None"
            THEN Raise(s1, "AttributeError")
            ELSE Raise(s1, "LoginError")
       ELSE send_method(s2, 0, "Connection.StartOk",
                        <<response[1], response[2]>>, None)

----------------------------------------------------------------------------
(* The heartbeat checker (pika/heartbeat.py), as its unit tests fix it *)

\* HeartbeatChecker._MAX_IDLE_COUNT
MAX_IDLE_COUNT == 2

\* HeartbeatChecker(connection, timeout): the timer runs every half timeout,
\* the counters start at 0 and _setup_timer() has been called
HeartbeatChecker(timeout) ==
    [_timeout |-> timeout \div 2, _bytes_received |-> 0,
     _idle_byte_intervals |-> 0, timer |-> 1, terminated |-> <<>>]

\* active: the connection's heartbeat checker is this one
active(s) == s.heartbeat # 0

\* connection_is_idle
connection_is_idle(s) == s.checker._idle_byte_intervals >= MAX_IDLE_COUNT

\* _has_received_data
_has_received_data(s) == s.checker._bytes_received # s.bytes_received

\* _close_connection(): _terminate_stream(AMQPHeartbeatTimeout(reason))
_close_connection(s) ==
    disconnect([s EXCEPT !.checker.terminated =
                            Append(@, "AMQPHeartbeatTimeout")])

\* _update_counters()
_update_counters(s) == [s EXCEPT !.checker._bytes_received = s.bytes_received]

\* _send_heartbeat_frame()
_send_heartbeat_frame(s) == _send_frame(s, FrameHeartbeat)

\* _setup_timer(): _adapter_add_timeout(_timeout, send_and_check)
_setup_timer(s) == [s EXCEPT !.checker.timer = @ + 1]

\* _start_timer that does not ask whether the checker is active
_start_timer_always(s) == _setup_timer(s)

\* _start_timer()
_start_timer(s) == IF active(s) THEN _setup_timer(s) ELSE s

\* send_and_check that declares the connection stale one interval late
send_and_check_late(s) ==
    IF s.checker._idle_byte_intervals > MAX_IDLE_COUNT
    THEN _close_connection(s)
    ELSE LET counted ==
                 [s EXCEPT !.checker._idle_byte_intervals =
                              IF _has_received_data(s) THEN 0 ELSE @ + 1]
         IN _start_timer(_send_heartbeat_frame(_update_counters(counted)))

\* send_and_check(): the timer's callback
send_and_check(s) ==
    IF connection_is_idle(s)
    THEN _close_connection(s)
    ELSE LET counted ==
                 [s EXCEPT !.checker._idle_byte_intervals =
                              IF _has_received_data(s) THEN 0 ELSE @ + 1]
         IN _start_timer(_send_heartbeat_frame(_update_counters(counted)))

----------------------------------------------------------------------------
(* The handshake, continued *)

\* _combine that prefers the larger value
_combine_max(a, b) == IF a = 0 THEN b ELSE IF b = 0 THEN a ELSE IF a < b THEN b ELSE a

\* _combine(a, b)
_combine(a, b) == IF a = 0 THEN b ELSE IF b = 0 THEN a ELSE IF a < b THEN a ELSE b

\* ConnectionState.tune(channel_max, frame_max)
state_tune(s, cmax, fmax) ==
    [s EXCEPT !.state = [channel_max |-> cmax, frame_max |-> fmax]]

\* _on_connection_tune that sends Connection.Open ahead of Connection.TuneOk
_on_connection_tune_open_first(s, frame) ==
    LET cmax == _combine(s.parameters.channel_max, frame.args[1])
        fmax == _combine(s.parameters.frame_max, frame.args[2])
        hint == _combine(s.parameters.heartbeat, frame.args[3])
        s1 == IF hint # 0
              THEN [s EXCEPT !.heartbeat = hint,
                             !.checker = HeartbeatChecker(hint)]
              ELSE s
        s2 == state_tune(s1, cmax, fmax)
        s3 == rpc(s2, "_on_connection_open", 0, "Connection.Open", <<>>,
                  <<"Connection.OpenOk">>)
    IN send_method(s3, 0, "Connection.TuneOk", <<cmax, fmax, hint>>, None)

\* _on_connection_tune(frame)
_on_connection_tune(s, frame) ==
    LET cmax == _combine(s.parameters.channel_max, frame.args[1])
        fmax == _combine(s.parameters.frame_max, frame.args[2])
        hint == _combine(s.parameters.heartbeat, frame.args[3])
        s1 == IF hint # 0
              THEN [s EXCEPT !.heartbeat = hint,
                             !.checker = HeartbeatChecker(hint)]
              ELSE s
        s2 == state_tune(s1, cmax, fmax)
        s3 == send_method(s2, 0, "Connection.TuneOk",
                          <<cmax, fmax, hint>>, None)
    IN rpc(s3, "_on_connection_open", 0, "Connection.Open", <<>>,
           <<"Connection.OpenOk">>)

\* _on_connection_closed that leaves open set
_on_connection_closed_open(s, frame, from_adapter) ==
    LET s1 == [s EXCEPT !.closed = TRUE, !.closing = <<>>]
        s2 == callbacks_process(s1, 0, "_on_connection_closed", "connection")
    IN IF ~from_adapter THEN disconnect(s2) ELSE s2

\* _on_connection_closed(frame, from_adapter)
_on_connection_closed(s, frame, from_adapter) ==
    LET s1 == [s EXCEPT !.closed = TRUE, !.closing = <<>>, !.open = FALSE]
        s2 == callbacks_process(s1, 0, "_on_connection_closed", "connection")
    IN IF ~from_adapter THEN disconnect(s2) ELSE s2

\* _on_close_ready()
_on_close_ready(s) ==
    IF s.closed THEN s
    ELSE rpc(s, "_on_connection_closed", 0, "Connection.Close", s.closing,
             <<"Connection.CloseOk">>)

\* Channel.__init__(connection, channel_number, on_open_callback): opens itself
Channel_init(s, channel_number) ==
    send_method(s, channel_number, "Channel.Open", <<>>, None)

\* Channel.close(code, text)
Channel_close(s, channel_number, reason) ==
    send_method(s, channel_number, "Channel.Close", reason, None)

\* the keys of _channels in the order a dict of small integers yields them
SortedKeys(S) ==
    LET f[T \in SUBSET S] ==
            IF T = {} THEN <<>>
            ELSE LET m == CHOOSE x \in T : \A y \in T : x <= y
                 IN <<m>> \o f[T \ {m}]
    IN f[S]

\* close without the test for closing or closed
close_unguarded(s, reason) ==
    LET s1 == [s EXCEPT !.closing = reason]
        keys == SortedKeys(s1._channels)
        each[i \in 0..Len(keys)] ==
            IF i = 0 THEN s1
            ELSE Channel_close(each[i - 1], keys[i], reason)
        s3 == each[Len(keys)]
    IN IF Cardinality(s3._channels) = 0 THEN _on_close_ready(s3) ELSE s3

\* close(code, text)
close(s, reason) ==
    IF Truthy(s.closing) \/ s.closed THEN s
    ELSE LET s1 == [s EXCEPT !.closing = reason]
             s2 == callbacks_remove(s1, 0, "_on_connection_close",
                                    "on_connection_closed")
             keys == SortedKeys(s2._channels)
             each[i \in 0..Len(keys)] ==
                 IF i = 0 THEN s2
                 ELSE Channel_close(each[i - 1], keys[i], reason)
             s3 == each[Len(keys)]
         IN IF Cardinality(s3._channels) = 0 THEN _on_close_ready(s3) ELSE s3

\* _on_remote_close(frame)
_on_remote_close(s, frame) == close(s, frame.args)

\* _on_channel_close without the test that no channel is left
_on_channel_close_early(s, frame) ==
    LET s1 == IF frame.channel_number \in s._channels
              THEN [s EXCEPT !._channels = @ \ {frame.channel_number}]
              ELSE s
    IN IF Truthy(s1.closing) THEN _on_close_ready(s1) ELSE s1

\* _on_channel_close(frame)
_on_channel_close(s, frame) ==
    LET s1 == IF frame.channel_number \in s._channels
              THEN [s EXCEPT !._channels = @ \ {frame.channel_number}]
              ELSE s
    IN IF Truthy(s1.closing) /\ Cardinality(s1._channels) = 0
       THEN _on_close_ready(s1)
       ELSE s1

\* _next_channel_number that counts the channels instead of taking the
\* largest number
_next_channel_number_count(s) ==
    LET limit == IF s.state.channel_max # 0 THEN s.state.channel_max
                 ELSE CHANNEL_MAX
    IN IF Cardinality(s._channels) = limit THEN 0
       ELSE Cardinality(s._channels) + 1

\* _next_channel_number(); 0 stands for raise NoFreeChannels
_next_channel_number(s) ==
    LET limit == IF s.state.channel_max # 0 THEN s.state.channel_max
                 ELSE CHANNEL_MAX
    IN IF Cardinality(s._channels) = limit THEN 0
       ELSE IF Cardinality(s._channels) = 0 THEN 1
       ELSE (CHOOSE m \in s._channels : \A n \in s._channels : n <= m) + 1

\* channel(on_open_callback, channel_number); 0 stands for channel_number=None
channel(s, channel_number) ==
    LET n == IF channel_number = 0 THEN _next_channel_number(s)
             ELSE channel_number
    IN IF n = 0 THEN Raise(s, "NoFreeChannels")
       ELSE LET s1 == callbacks_add(s, n, "Channel.CloseOk",
                                    "_on_channel_close", TRUE)
                s2 == [s1 EXCEPT !._channels = @ \cup {n}]
            IN Channel_init(s2, n)

----------------------------------------------------------------------------
(* Inbound dispatch *)

\* the call callbacks.process makes: a method of the connection registered
\* under a method key is run on the frame; a callback registered by
\* add_on_open_callback or add_on_close_callback is called with the
\* connection, and what it sees is recorded; _reconnect(self) takes no
\* argument and so fails when it is called with the connection
Invoke(s, handle, arg) ==
    CASE handle = "_on_connection_start" -> _on_connection_start(s, arg)
      [] handle = "_on_connection_tune" -> _on_connection_tune(s, arg)
      [] handle = "_on_connection_open" -> _on_connection_open(s, arg)
      [] handle = "_on_remote_close" -> _on_remote_close(s, arg)
      [] handle = "_on_connection_closed" -> _on_connection_closed(s, arg, FALSE)
      [] handle = "_on_channel_close" -> _on_channel_close(s, arg)
      [] handle = "_reconnect" -> Raise(s, "TypeError")
      [] OTHER ->
          [s EXCEPT !.fired = Append(@, [handle |-> handle,
                                         closing |-> s.closing,
                                         is_open |-> is_open(s)])]

\* the body of on_data_available's loop for one decoded frame
HandleFrame(s, frame) ==
    IF frame.type = "Method"
       /\ callbacks_pending(s, frame.channel_number, frame.method)
    THEN callbacks_process(s, frame.channel_number, frame.method, frame)
    ELSE IF frame.type = "Heartbeat" THEN s
    ELSE IF frame.channel_number > 0
    THEN IF frame.channel_number \in s._channels
         THEN s
         ELSE Raise(s, "KeyError")
    ELSE s

\* on_data_available(data): the frames of the chunk in order; an exception
\* leaves the loop and the rest of the chunk is dropped with the local copy
on_data_available(s, data) ==
    LET loop[i \in 0..Len(data)] ==
            IF i = 0 THEN s
            ELSE IF loop[i - 1].raised # "" THEN loop[i - 1]
            ELSE HandleFrame(loop[i - 1], data[i])
    IN loop[Len(data)]

\* the length of a marshalled frame: the 7-byte header, the payload and the
\* end marker; the payload of a method is its class and method ids and one
\* byte for each argument, that of a heartbeat is empty
FrameLen(frame) ==
    HEADER_SIZE + (IF frame.type = "Method" THEN 4 + Len(frame.args) ELSE 0)
    + FOOTER_SIZE

\* frame.marshal(): the bytes of the frame, each one the i-th byte of it
marshal(frame) == [i \in 1..FrameLen(frame) |-> <<i, frame>>]

\* state.handle_input(data): (consumed_count, frame) for the frame data
\* starts with, (0, None) while that frame is not complete; bytes that do not
\* start a frame are a FrameError
handle_input(data) ==
    LET frame == data[1][2]
    IN IF data[1][1] # 1 THEN <<0, None, "FrameError">>
       ELSE IF Len(data) < FrameLen(frame) THEN <<0, None, "">>
       ELSE IF SubSeq(data, 1, FrameLen(frame)) # marshal(frame)
       THEN <<0, None, "FrameError">>
       ELSE <<FrameLen(frame), frame, "">>

\* the while loop of on_data_available over the local data: an incomplete
\* frame goes back to self.buffer; an exception leaves the loop and the local
\* data is gone with it
RECURSIVE on_data_available_loop(_, _)
on_data_available_loop(s, data) ==
    IF data = <<>> THEN s
    ELSE LET input == handle_input(data)
             consumed_count == input[1]
             frame == input[2]
             counted == [s EXCEPT !.bytes_received = @ + consumed_count]
             handled == HandleFrame(counted, frame)
             seen == [handled EXCEPT !.dispatched =
                        Append(@, [frame |-> frame, raised |-> handled.raised])]
         IN IF input[3] # "" THEN Raise(s, input[3])
            ELSE IF frame = None THEN [s EXCEPT !.buffer = data]
            ELSE IF seen.raised # "" THEN seen
            ELSE on_data_available_loop(seen, SubSeq(data, consumed_count + 1,
                                                     Len(data)))

\* on_data_available that forgets an incomplete frame
on_data_available_forgetful(s, data) ==
    [on_data_available_loop([s EXCEPT !.buffer = <<>>], s.buffer \o data)
        EXCEPT !.buffer = <<>>]

\* on_data_available(data) on the bytes of a chunk: buffer.write(data),
\* buffer.read(), buffer.flush() and the loop
on_data_available_bytes(s, data) ==
    on_data_available_loop([s EXCEPT !.buffer = <<>>], s.buffer \o data)

----------------------------------------------------------------------------
(* Inputs *)

\* what the server offers in Connection.Tune: channel_max, frame_max, heartbeat
TuneArgs == {<<MaxChannel, 4096, 60>>}

InboundFrames ==
    {FrameMethod(0, "Connection.Start", <<0, 9, {"PLAIN"}>>),
     FrameMethod(0, "Connection.OpenOk", <<>>),
     FrameMethod(0, "Connection.Close", RemoteReason),
     FrameMethod(0, "Connection.CloseOk", <<>>)}
    \cup {FrameMethod(0, "Connection.Tune", t) : t \in TuneArgs}
    \cup {FrameMethod(n, "Channel.CloseOk", <<>>) : n \in 1..MaxChannel}
    \cup {FrameMethod(MaxChannel, "Basic.Deliver", <<>>)}

Chunks == UNION {[1..k -> InboundFrames] : k \in 1..MaxChunk}

\* the channel numbers a user passes to channel
UserChannels == 1..MaxChannel

----------------------------------------------------------------------------
(* Actions *)

Install(s) ==
    /\ open' = s.open
    /\ closing' = s.closing
    /\ closed' = s.closed
    /\ _channels' = s._channels
    /\ callbacks' = s.callbacks
    /\ first_written' = s.first_written
    /\ handshake' = s.handshake
    /\ parameters' = s.parameters
    /\ state' = s.state
    /\ heartbeat' = s.heartbeat
    /\ transport' = s.transport
    /\ emitted' = s.emitted
    /\ fired' = s.fired
    /\ disconnects' = s.disconnects
    /\ raised' = s.raised
    /\ buffer' = s.buffer
    /\ bytes_received' = s.bytes_received
    /\ dispatched' = s.dispatched
    /\ fed' = s.fed
    /\ checker' = s.checker
    /\ stream' = stream
    /\ table' = table
    /\ roundtrip' = roundtrip
    /\ pre' = Snapshot

Op(name, arg) == [name |-> name, arg |-> arg]

\* the adapter reports the socket connected
OnConnected ==
    /\ transport = "connecting"
    /\ Install(_on_connected([Cur EXCEPT !.transport = "connected"]))
    /\ last_op' = Op("_on_connected", <<>>)

\* the adapter hands over a chunk read from the socket
OnDataAvailable ==
    /\ transport = "connected"
    /\ \E data \in Chunks :
        /\ Install(on_data_available(Cur, data))
        /\ last_op' = Op("on_data_available", data)

\* the adapter reports the socket closed: _on_connection_closed(None, True)
OnAdapterClosed ==
    /\ transport = "connected"
    /\ Install(_on_connection_closed([Cur EXCEPT !.transport = "closed"],
                                     <<>>, TRUE))
    /\ last_op' = Op("_on_connection_closed", <<>>)

\* the user calls close()
Close ==
    /\ Install(close(Cur, DefaultReason))
    /\ last_op' = Op("close", DefaultReason)

\* the user calls channel(on_open_callback) or channel(on_open_callback, n)
Channel ==
    \E n \in {0} \cup UserChannels :
        /\ n = 0 => _next_channel_number(Cur) <= MaxChannel
        /\ Install(channel(Cur, n))
        /\ last_op' = Op("channel", <<n>>)

\* the user calls send_method(1, Basic.Publish)
SendMethod ==
    /\ Install(send_method(Cur, 1, "Basic.Publish", <<>>, None))
    /\ last_op' = Op("send_method", <<1>>)

\* the user calls add_on_close_callback(on_close_callback)
AddOnCloseCallback ==
    /\ Install(callbacks_add(Cur, 0, "_on_connection_closed",
                             "on_close_callback", FALSE))
    /\ last_op' = Op("add_on_close_callback", <<>>)

\* _init_connection_state()
_init_connection_state(s) ==
    callbacks_add(
        [s EXCEPT !.first_written = <<>>,
                  !.handshake = <<>>,
                  !.state = [channel_max |-> 0, frame_max |-> 0],
                  !._channels = {},
                  !.buffer = <<>>,
                  !.bytes_received = 0,
                  !.heartbeat = 0,
                  !.closed = TRUE, !.closing = <<>>, !.open = FALSE],
        0, "Connection.Start", "_on_connection_start", TRUE)

\* Connection.__init__(parameters, on_open_callback): the callbacks, the
\* initial state, and _connect()
Connection_init(params) ==
    LET blank == [parameters |-> params, handshake |-> <<>>,
                  open |-> FALSE, closing |-> <<>>, closed |-> TRUE,
                  _channels |-> {}, callbacks |-> NoCallbacks,
                  first_written |-> <<>>,
                  state |-> [channel_max |-> 0, frame_max |-> 0],
                  heartbeat |-> 0, transport |-> "connecting",
                  buffer |-> <<>>, bytes_received |-> 0,
                  dispatched |-> <<>>, fed |-> 0, checker |-> None,
                  emitted |-> <<>>, fired |-> <<>>, disconnects |-> 0,
                  raised |-> ""]
        s1 == callbacks_add(blank, 0, "_on_connection_open",
                            "on_open_callback", FALSE)
        s2 == callbacks_add(s1, 0, "_on_connection_closed",
                            "on_connection_closed", FALSE)
    IN _init_connection_state(s2)

\* the state a constructor leaves
Constructed(s) ==
    /\ parameters = s.parameters
    /\ open = s.open
    /\ closing = s.closing
    /\ closed = s.closed
    /\ _channels = s._channels
    /\ callbacks = s.callbacks
    /\ first_written = s.first_written
    /\ handshake = s.handshake
    /\ state = s.state
    /\ heartbeat = s.heartbeat
    /\ transport = s.transport
    /\ emitted = s.emitted
    /\ fired = s.fired
    /\ disconnects = s.disconnects
    /\ raised = s.raised
    /\ buffer = s.buffer
    /\ bytes_received = s.bytes_received
    /\ dispatched = s.dispatched
    /\ fed = s.fed
    /\ checker = s.checker
    /\ last_op = Op("__init__", <<>>)
    /\ pre = [open |-> FALSE, closing |-> <<>>, closed |-> TRUE,
              _channels |-> {}, pending |-> {}]

\* no byte stream and no field table are part of the run
Engine == stream = <<>> /\ table = <<>> /\ roundtrip = <<>>

Init == Constructed(Connection_init(DefaultParameters)) /\ Engine

Next ==
    \/ OnConnected
    \/ OnDataAvailable
    \/ OnAdapterClosed
    \/ Close
    \/ SendMethod
    \/ Channel
    \/ AddOnCloseCallback

Spec == Init /\ [][Next]_vars

----------------------------------------------------------------------------
(* The handshake, for every ConnectionParameters of a small set and every  *)
(* answer of the server                                                    *)

\* the ConnectionParameters a client passes: without and with credentials,
\* with and without a preference for each tuned value
ClientParameters ==
    {ConnectionParameters(c, cmax, fmax, hb) :
        c \in {"None", "PlainCredentials"}, cmax \in {0, 1},
        fmax \in {0, 1024, 131072}, hb \in {0, 30}}

\* Connection.Tune as servers send it: channel_max, frame_max, heartbeat
ServerTunes ==
    {<<cmax, fmax, hb>> :
        cmax \in {0, MaxChannel}, fmax \in {0, 2048, 4096}, hb \in {0, 60}}

\* Connection.Start of the client's version offering PLAIN, of another
\* version, and offering no mechanism PlainCredentials answer
ServerStarts ==
    {<<0, 9, {"PLAIN"}>>, <<8, 0, {"PLAIN"}>>, <<0, 9, {"EXTERNAL"}>>}

HandshakeFrames ==
    {FrameMethod(0, "Connection.Start", a) : a \in ServerStarts}
    \cup {FrameMethod(0, "Connection.Tune", t) : t \in ServerTunes}
    \cup {FrameProtocolHeader, FrameMethod(0, "Connection.OpenOk", <<>>)}
    \cup {FrameMethod(n, "Channel.CloseOk", <<>>) : n \in 1..MaxChannel}

\* the adapter hands over one frame of the handshake
OnHandshakeData ==
    /\ transport = "connected"
    /\ \E frame \in HandshakeFrames :
        /\ Install(on_data_available(Cur, <<frame>>))
        /\ last_op' = Op("on_data_available", <<frame>>)

HandshakeInit ==
    /\ \E params \in ClientParameters : Constructed(Connection_init(params))
    /\ Engine

HandshakeNext ==
    \/ OnConnected
    \/ OnHandshakeData
    \/ Channel

Handshake == HandshakeInit /\ [][HandshakeNext]_vars

----------------------------------------------------------------------------
(* Publishing content on an open connection, for small frame sizes and     *)
(* every short body                                                        *)

\* the longest body published
MaxBody == 5
\* the largest max_piece of the small frame sizes
MaxPiece == 3

\* frame_max as the client asks for it: no preference, the size that leaves
\* no room for a piece, the smallest sizes that leave room, and 4096
PublishFrameMaxes ==
    {HEADER_SIZE + FOOTER_SIZE + k : k \in 0..MaxPiece} \cup {0, 4096}

ShortBodies == UNION {[1..k -> {"a", "b"}] : k \in 0..MaxBody}

\* a body of 10000 bytes
LongBody == [i \in 1..10000 |-> IF i % 2 = 0 THEN "a" ELSE "b"]

\* the bodies published under a frame_max: the long one only with frames
\* that take it in a few pieces
Bodies(frame_max) ==
    ShortBodies \cup (IF frame_max >= 4096 THEN {LongBody} ELSE {})

\* the properties of the content
BasicProperties == <<"BasicProperties">>

PublishFrames ==
    {FrameMethod(0, "Connection.Start", <<0, 9, {"PLAIN"}>>),
     FrameMethod(0, "Connection.Tune", <<0, 0, 0>>),
     FrameMethod(0, "Connection.OpenOk", <<>>)}

\* the adapter hands over one frame of the handshake
OnPublishData ==
    /\ transport = "connected"
    /\ \E frame \in PublishFrames :
        /\ Install(on_data_available(Cur, <<frame>>))
        /\ last_op' = Op("on_data_available", <<frame>>)

\* the forms of content: (properties, body), (None, body) and a bare body
Contents(frame_max) ==
    {<<"tuple", props, body>> :
        props \in {BasicProperties, None}, body \in Bodies(frame_max)}
    \cup {<<"str", body>> : body \in Bodies(frame_max)}

\* the user publishes on the open connection:
\* send_method(1, Basic.Publish, content); the observer keeps the properties
\* and the body of the content
SendContent ==
    /\ is_open(Cur)
    /\ \E content \in Contents(state.frame_max) :
        /\ Install(send_method(Cur, 1, "Basic.Publish", <<>>, content))
        /\ last_op' = Op("send_method",
                         IF isinstance_tuple(content)
                         THEN <<1, content[2], content[3]>>
                         ELSE <<1, None, content[2]>>)

PublishingInit ==
    /\ \E fmax \in PublishFrameMaxes :
        Constructed(Connection_init(ConnectionParameters("None", 0, fmax, 0)))
    /\ Engine

PublishingNext ==
    \/ OnConnected
    \/ OnPublishData
    \/ SendContent

Publishing == PublishingInit /\ [][PublishingNext]_vars

----------------------------------------------------------------------------
(* The inbound byte stream of a connection, handed over in chunks of every  *)
(* size                                                                    *)

\* the most frames in a stream
MaxFrames == 2

\* the frames a server sends: the handshake of the client's version and of
\* another version, heartbeats, and a delivery on a channel
StreamFrames ==
    {FrameMethod(0, "Connection.Start", <<0, 9, {"PLAIN"}>>),
     FrameMethod(0, "Connection.Start", <<8, 0, {"PLAIN"}>>),
     FrameMethod(0, "Connection.Tune", <<0, 0, 0>>),
     FrameMethod(0, "Connection.OpenOk", <<>>),
     FrameMethod(1, "Basic.Deliver", <<>>),
     FrameHeartbeat}

RECURSIVE Marshalled(_)
\* the bytes of a sequence of frames
Marshalled(frames) ==
    IF frames = <<>> THEN <<>>
    ELSE marshal(Head(frames)) \o Marshalled(Tail(frames))

Streams ==
    {Marshalled(frames) :
        frames \in UNION {[1..k -> StreamFrames] : k \in 1..MaxFrames}}

\* the adapter hands over the next bytes of the stream, as many as it read
OnStreamData ==
    /\ transport = "connected"
    /\ \E k \in 1..(Len(stream) - fed) :
        LET data == SubSeq(stream, fed + 1, fed + k)
        IN /\ Install(on_data_available_bytes([Cur EXCEPT !.fed = @ + k], data))
           /\ last_op' = Op("on_data_available", data)

StreamingInit ==
    /\ Constructed(Connection_init(DefaultParameters))
    /\ stream \in Streams
    /\ table = <<>> /\ roundtrip = <<>>

StreamingNext ==
    \/ OnConnected
    \/ OnStreamData

Streaming == StreamingInit /\ [][StreamingNext]_vars

----------------------------------------------------------------------------
(* A user's rpc with two acceptable replies *)

RpcFrames ==
    {FrameMethod(0, "Connection.Start", <<0, 9, {"PLAIN"}>>),
     FrameMethod(0, "Connection.Tune", <<0, 0, 0>>),
     FrameMethod(0, "Connection.OpenOk", <<>>)}
    \cup {FrameMethod(1, GetReplies[i], <<>>) : i \in 1..Len(GetReplies)}

\* the adapter hands over one frame
OnRpcData ==
    /\ transport = "connected"
    /\ \E frame \in RpcFrames :
        /\ Install(on_data_available(Cur, <<frame>>))
        /\ last_op' = Op("on_data_available", <<frame>>)

\* the user calls rpc(on_reply, 1, Basic.Get, [Basic.GetOk, Basic.GetEmpty])
Rpc ==
    /\ Install(rpc(Cur, "on_reply", 1, "Basic.Get", <<>>, GetReplies))
    /\ last_op' = Op("rpc", <<1, "Basic.Get">>)

RpcNext ==
    \/ OnConnected
    \/ OnRpcData
    \/ Channel
    \/ Rpc

RpcSpec == Init /\ [][RpcNext]_vars

----------------------------------------------------------------------------
(* Reconnection *)

\* _ensure_closed()
_ensure_closed(s) ==
    IF is_open(s) /\ ~Truthy(s.closing) THEN close(s, DefaultReason) ELSE s

\* _connect(): the adapter starts connecting the socket
_connect(s) == [s EXCEPT !.transport = "connecting"]

\* _reconnect()
_reconnect(s) == _connect(_init_connection_state(s))

\* reconnect()
reconnect(s) ==
    IF Truthy(s.closing)
    THEN callbacks_add(s, 0, "_on_connection_closed", "_reconnect", FALSE)
    ELSE IF s.open
    THEN _ensure_closed(callbacks_add(s, 0, "_on_connection_closed",
                                      "_reconnect", FALSE))
    ELSE _reconnect(s)

ReconnectFrames ==
    {FrameMethod(0, "Connection.Start", <<0, 9, {"PLAIN"}>>),
     FrameMethod(0, "Connection.Tune", <<0, 0, 0>>),
     FrameMethod(0, "Connection.OpenOk", <<>>),
     FrameMethod(0, "Connection.CloseOk", <<>>)}

\* the adapter hands over one frame
OnReconnectData ==
    /\ transport = "connected"
    /\ \E frame \in ReconnectFrames :
        /\ Install(on_data_available(Cur, <<frame>>))
        /\ last_op' = Op("on_data_available", <<frame>>)

\* the reconnection strategy or the adapter calls reconnect()
Reconnect ==
    /\ Install(reconnect(Cur))
    /\ last_op' = Op("reconnect", <<>>)

ReconnectionNext ==
    \/ OnConnected
    \/ OnReconnectData
    \/ OnAdapterClosed
    \/ Close
    \/ Reconnect

Reconnection == Init /\ [][ReconnectionNext]_vars

----------------------------------------------------------------------------
(* The heartbeat checker of a connection that negotiated a heartbeat *)

\* the most heartbeat frames the server sends
MaxHeartbeats == 2

\* the connection after __init__, _on_connected and the server's
\* Connection.Start and Connection.Tune with a heartbeat of 60
Tuned(params) ==
    on_data_available_bytes(
        _on_connected([Connection_init(params)
                          EXCEPT !.transport = "connected"]),
        marshal(FrameMethod(0, "Connection.Start", <<0, 9, {"PLAIN"}>>))
        \o marshal(FrameMethod(0, "Connection.Tune", <<0, 0, 60>>)))

\* the timer of the checker fires
Tick ==
    /\ checker # None
    /\ checker.timer > 0
    /\ Install(send_and_check([Cur EXCEPT !.checker.timer = @ - 1]))
    /\ last_op' = Op("send_and_check", <<>>)

\* the adapter hands over a heartbeat frame of the server
OnHeartbeatData ==
    /\ transport = "connected"
    /\ Len(dispatched) < 2 + MaxHeartbeats
    /\ Install(on_data_available_bytes(Cur, marshal(FrameHeartbeat)))
    /\ last_op' = Op("on_data_available", marshal(FrameHeartbeat))

HeartbeatInit ==
    /\ \E hb \in {0, 30} :
        Constructed(Tuned(ConnectionParameters("PlainCredentials", 0, 0, hb)))
    /\ Engine

HeartbeatNext ==
    \/ Tick
    \/ OnHeartbeatData
    \/ Reconnect

Heartbeat == HeartbeatInit /\ [][HeartbeatNext]_vars

----------------------------------------------------------------------------
(* Field tables (pika/table.py).  Bytes are numbers 0..255 and a str is the *)
(* sequence of its bytes.  A value is <<"str", bytes>>, <<"int", n>>,       *)
(* <<"Decimal", coefficient, exponent>>, <<"datetime", seconds>> (a naive   *)
(* UTC datetime of whole seconds), <<"dict", table>> or <<"list", values>>; *)
(* a table is a function from keys to values.  An unpacked number is <<n>>, *)
(* or <<"long", bytes>> with its big-endian bytes when it is 2^31 or more.  *)

\* the result of packing: the bytes, or the exception raised
Packed(bytes) == [error |-> "", bytes |-> bytes]
Failed(exception) == [error |-> exception, bytes |-> <<>>]

\* ''.join of two results
Join(a, b) ==
    IF a.error # "" THEN a
    ELSE IF b.error # "" THEN b
    ELSE Packed(a.bytes \o b.bytes)

RECURSIVE BigEndian(_, _)
\* the width low bytes of n in two's complement, most significant first
BigEndian(n, width) ==
    IF width = 0 THEN <<>>
    ELSE BigEndian(n \div 256, width - 1) \o <<n % 256>>

\* struct.pack of an unsigned format ('B', '>I', '>Q'): a negative number is
\* out of range, which raises struct.error, or, where the interpreter still
\* masks integer overflow, packs the low bytes
pack_unsigned(n, width, masking) ==
    IF n < 0 /\ ~masking THEN Failed("struct.error")
    ELSE Packed(BigEndian(n, width))

\* struct.pack('>i', n)
pack_signed(n, width) == Packed(BigEndian(n, width))

\* whether the unsigned number of these bytes is below 2^31
Small(bytes) ==
    /\ \A i \in 1..(Len(bytes) - 4) : bytes[i] = 0
    /\ Len(bytes) >= 4 => bytes[Len(bytes) - 3] < 128

RECURSIVE Unsigned(_)
\* the unsigned number of big-endian bytes
Unsigned(bytes) ==
    IF bytes = <<>> THEN 0
    ELSE Unsigned(SubSeq(bytes, 1, Len(bytes) - 1)) * 256 + bytes[Len(bytes)]

\* struct.unpack_from of an unsigned format at offset
unpack_from(encoded, offset, width) ==
    LET bytes == SubSeq(encoded, offset + 1, offset + width)
    IN IF Small(bytes) THEN <<Unsigned(bytes)>> ELSE <<"long", bytes>>

RECURSIVE normalize(_)
\* Decimal.normalize(): no trailing zeros in the coefficient
normalize(value) ==
    IF value[2] = 0 THEN <<"Decimal", 0, 0>>
    ELSE IF value[2] % 10 = 0
    THEN normalize(<<"Decimal", value[2] \div 10, value[3] + 1>>)
    ELSE value

\* table.iteritems(): the keys in the order the dict yields them
iteritems(dict) ==
    CHOOSE keys \in [1..Cardinality(DOMAIN dict) -> DOMAIN dict] :
        \A i, j \in DOMAIN keys : i # j => keys[i] # keys[j]

RECURSIVE encode_table(_, _)
RECURSIVE encode_value(_, _)

\* encode_table(pieces, table): the pieces it appends, joined; the number it
\* returns is their length
encode_table(dict, masking) ==
    LET keys == iteritems(dict)
        fields[i \in 0..Len(keys)] ==
            IF i = 0 THEN Packed(<<>>)
            ELSE Join(fields[i - 1],
                      Join(pack_unsigned(Len(keys[i]), 1, masking),
                           Join(Packed(keys[i]),
                                encode_value(dict[keys[i]], masking))))
        body == fields[Len(keys)]
    IN Join(pack_unsigned(Len(body.bytes), 4, masking), body)

\* the branch of encode_table's loop for the kind of the value
encode_value(value, masking) ==
    CASE value[1] = "str" ->
            Join(Packed(<<83>>),
                 Join(pack_unsigned(Len(value[2]), 4, masking),
                      Packed(value[2])))
      [] value[1] = "int" ->
            Join(Packed(<<73>>), pack_unsigned(value[2], 4, masking))
      [] value[1] = "Decimal" ->
            LET normal == normalize(value)
            IN IF normal[3] < 0
               THEN Join(Packed(<<68>>),
                         Join(pack_unsigned(-normal[3], 1, masking),
                              pack_signed(normal[2], 4)))
               ELSE Join(Packed(<<68, 0>>),
                         pack_unsigned(normal[2] * 10 ^ normal[3], 4, masking))
      [] value[1] = "datetime" ->
            Join(Packed(<<84>>), pack_unsigned(value[2], 8, masking))
      [] value[1] = "dict" ->
            Join(Packed(<<70>>), encode_table(value[2], masking))
      [] value[1] = "list" ->
            LET p[i \in 0..Len(value[2])] ==
                    IF i = 0 THEN Packed(<<>>)
                    ELSE Join(p[i - 1],
                              IF value[2][i][1] = "dict"
                              THEN encode_table(value[2][i][2], masking)
                              ELSE Failed("AttributeError"))
                piece == p[Len(value[2])]
            IN Join(Packed(<<65>>),
                    Join(pack_unsigned(Len(piece.bytes), 4, masking), piece))
      [] OTHER -> Failed("InvalidTableError")

\* result[key] = value
setitem(dict, key, value) ==
    [k \in DOMAIN dict \cup {key} |-> IF k = key THEN value ELSE dict[k]]

RECURSIVE decode_table(_, _)
RECURSIVE decode_fields(_, _, _, _)
RECURSIVE decode_array(_, _, _, _)

\* the branch of decode_table's loop for the kind at offset - 1
decode_value(encoded, offset, kind) ==
    CASE kind = 83 ->
            LET length == unpack_from(encoded, offset, 4)[1]
            IN [error |-> "",
                result |-> <<"str", SubSeq(encoded, offset + 5,
                                           offset + 4 + length)>>,
                offset |-> offset + 4 + length]
      [] kind = 73 ->
            [error |-> "",
             result |-> <<"int">> \o unpack_from(encoded, offset, 4),
             offset |-> offset + 4]
      [] kind = 68 ->
            LET decimals == unpack_from(encoded, offset, 1)[1]
                raw == unpack_from(encoded, offset + 1, 4)
            IN [error |-> "",
                result |-> <<"Decimal">> \o raw \o <<-decimals>>,
                offset |-> offset + 5]
      [] kind = 84 ->
            [error |-> "",
             result |-> <<"datetime">> \o unpack_from(encoded, offset, 8),
             offset |-> offset + 8]
      [] kind = 70 ->
            LET inner == decode_table(encoded, offset)
            IN [inner EXCEPT !.result = <<"dict", @>>]
      [] kind = 65 ->
            LET length == unpack_from(encoded, offset, 4)[1]
            IN decode_array(encoded, offset + 4, offset + 4 + length, <<>>)
      [] OTHER ->
            [error |-> "InvalidTableError", result |-> <<>>, offset |-> offset]

\* the loop of decode_table over the fields up to limit
decode_fields(encoded, offset, limit, result) ==
    IF ~(offset < limit)
    THEN [error |-> "", result |-> result, offset |-> offset]
    ELSE LET keylen == unpack_from(encoded, offset, 1)[1]
             key == SubSeq(encoded, offset + 2, offset + 1 + keylen)
             kind == encoded[offset + 1 + keylen + 1]
             field == decode_value(encoded, offset + 1 + keylen + 1, kind)
         IN IF field.error # "" THEN field
            ELSE decode_fields(encoded, field.offset, limit,
                               setitem(result, key, field.result))

\* the loop of decode_table over the tables of an array up to offset_end
decode_array(encoded, offset, offset_end, value) ==
    IF ~(offset < offset_end)
    THEN [error |-> IF offset # offset_end THEN "TableDecodingError" ELSE "",
          result |-> <<"list", value>>, offset |-> offset]
    ELSE LET v == decode_table(encoded, offset)
         IN IF v.error # "" THEN v
            ELSE decode_array(encoded, v.offset, offset_end,
                              Append(value, <<"dict", v.result>>))

\* decode_table(encoded, offset): (result, offset)
decode_table(encoded, offset) ==
    LET tablesize == unpack_from(encoded, offset, 4)[1]
    IN decode_fields(encoded, offset + 4, offset + 4 + tablesize, <<>>)

----------------------------------------------------------------------------
(* Field tables of the six kinds of value, encoded and decoded *)

\* the most fields in a table
MaxFields == 2

\* the keys "k", "l", ...
FieldKeys == {<<107 + i>> : i \in 0..(MaxFields - 1)}

\* the values that hold no other value
Scalars ==
    {<<"str", <<>>>>, <<"str", <<97, 98>>>>,
     <<"int", 0>>, <<"int", 1>>, <<"int", 2147483647>>,
     <<"int", -1>>, <<"int", -2147483647 - 1>>,
     <<"Decimal", 3, 0>>, <<"Decimal", 15, -1>>, <<"Decimal", 150, -2>>,
     <<"Decimal", -3, 0>>, <<"Decimal", -15, -1>>,
     <<"datetime", 0>>, <<"datetime", 86400>>}

\* the tables held by a table or an array
InnerTables ==
    {<<>>, [k \in {<<107>>} |-> <<"int", 1>>],
     [k \in {<<107>>} |-> <<"str", <<97>>>>]}

FieldValues ==
    Scalars
    \cup {<<"dict", inner>> : inner \in InnerTables}
    \cup {<<"list", <<>>>>, <<"list", << <<"str", <<97>>>> >> >>,
          <<"list", << <<"int", 1>> >> >>}
    \cup {<<"list", << <<"dict", inner>> >> >> : inner \in InnerTables}
    \cup {<<"list", << <<"dict", <<>>>>, <<"dict", inner>> >> >> :
             inner \in InnerTables}

FieldTables == UNION {[keys -> FieldValues] : keys \in SUBSET FieldKeys}

\* encode_table(pieces, table) and decode_table(''.join(pieces), 0)
round_trip(dict, masking) ==
    LET pieces == encode_table(dict, masking)
        decoded == decode_table(pieces.bytes, 0)
    IN IF pieces.error # ""
       THEN [error |-> pieces.error, encoded |-> <<>>, result |-> <<>>,
             offset |-> 0]
       ELSE [error |-> decoded.error, encoded |-> pieces.bytes,
             result |-> decoded.result, offset |-> decoded.offset]

\* the table is encoded and the bytes are decoded
RoundTrip ==
    /\ roundtrip = <<>>
    /\ \E masking \in BOOLEAN : roundtrip' = round_trip(table, masking)
    /\ UNCHANGED <<parameters, open, closing, closed, _channels, callbacks,
                   first_written, handshake, state, heartbeat, transport,
                   last_op, pre, emitted, fired, disconnects, raised, buffer,
                   bytes_received, dispatched, stream, fed, checker, table>>

TablesInit ==
    /\ Constructed(Connection_init(DefaultParameters))
    /\ stream = <<>>
    /\ table \in FieldTables
    /\ roundtrip = <<>>

TablesNext == RoundTrip

Tables == TablesInit /\ [][TablesNext]_vars

----------------------------------------------------------------------------
(* Properties.  The observers describe the entry point that ran last, so a   *)
(* statement about one call is a predicate on the state that follows it.     *)

FrameClose(reason) == FrameMethod(0, "Connection.Close", reason)
FrameCloseOk == FrameMethod(0, "Connection.CloseOk", <<>>)

Emitted(name) == Positions(emitted, name) # {}

FlagsUnchanged ==
    open = pre.open /\ closing = pre.closing /\ closed = pre.closed

\* the handles registered by add_on_close_callback, in order
OnCloseHandles ==
    [i \in 1..Len(callbacks[<<0, "_on_connection_closed">>]) |->
        callbacks[<<0, "_on_connection_closed">>][i].handle]

FiredHandles == [i \in 1..Len(fired) |-> fired[i].handle]

\* the connection was Open when the last entry point was entered
WasOpen == pre.open /\ ~Truthy(pre.closing) /\ ~pre.closed

\* C1: close() called while the connection is closing or closed emits no
\* frame (so no Channel.Close either) and leaves open, closing (the recorded
\* reason), closed and _channels as they were.
C1_CloseIdempotent ==
    (last_op.name = "close" /\ (Truthy(pre.closing) \/ pre.closed))
        => /\ emitted = <<>>
           /\ FlagsUnchanged
           /\ _channels = pre._channels

\* close() called on a closing connection that still has channels
C1_Witness ==
    /\ last_op.name = "close"
    /\ Truthy(pre.closing)
    /\ pre._channels # {}

\* C2: Connection.Close is only emitted with _channels empty; an effective
\* close() emits it itself exactly when no channel is registered; and while
\* closing, the Channel.CloseOk (a chunk of that one frame) that removes the
\* last channel emits it.
C2_CloseAfterLastChannel ==
    /\ Emitted("Connection.Close") => _channels = {}
    /\ (last_op.name = "close" /\ ~Truthy(pre.closing) /\ ~pre.closed)
        => (Emitted("Connection.Close") <=> pre._channels = {})
    /\ (last_op.name = "on_data_available" /\ Len(last_op.arg) = 1
        /\ Truthy(pre.closing) /\ pre._channels # {} /\ _channels = {})
        => Cardinality(Positions(emitted, "Connection.Close")) = 1

\* the Channel.CloseOk of the last of two channels closed by close()
C2_Witness ==
    /\ last_op.name = "on_data_available"
    /\ Truthy(pre.closing)
    /\ Cardinality(pre._channels) = 1
    /\ _channels = {}
    /\ Emitted("Connection.Close")
    /\ MaxChannel \in pre._channels

\* C3: a Connection.Close arriving from the server while the connection is
\* Open is answered with Connection.CloseOk.
C3_RemoteCloseAnswered ==
    (last_op.name = "on_data_available" /\ WasOpen
     /\ last_op.arg[1] = FrameClose(RemoteReason))
        => Emitted("Connection.CloseOk")

\* C4: after the server closed the connection with (reply_code, reply_text),
\* the on_close callbacks run while the recorded close reason is that pair.
C4_CallbacksSeeReason ==
    pre.closing = RemoteReason
        => \A i \in 1..Len(fired) :
              fired[i].handle \in {"on_connection_closed", "on_close_callback"}
                  => fired[i].closing = RemoteReason

\* C5: a Connection.Close(c2, t2) arriving while a local close(c1, t1) is in
\* flight replaces the close reason by (c2, t2).
C5_RemoteCloseSupersedes ==
    (last_op.name = "on_data_available" /\ pre.open
     /\ pre.closing = DefaultReason
     /\ last_op.arg = <<FrameClose(RemoteReason)>>)
        => closing = RemoteReason

C7_ClosedIgnoresInbound ==
    (last_op.name = "on_data_available" /\ pre.closed
     /\ "Connection.Start" \notin pre.pending)
        => /\ FlagsUnchanged
           /\ fired = <<>>
           /\ emitted = <<>>

\* C8: the first frame written to the outbound buffer is the ProtocolHeader.
C8_ProtocolHeaderFirst ==
    first_written # <<>> => first_written[1] = FrameProtocolHeader

\* the connection has not reached Open yet: it awaits the transport or
\* Connection.Start, or is in the handshake
NotYetOpen ==
    ~pre.open /\ (~pre.closed \/ "Connection.Start" \in pre.pending)

\* C9: channel() and send_method(N, ...) called before the connection is Open
\* emit no method frame on a channel N > 0.
C9_NoChannelFrameBeforeOpen ==
    (last_op.name \in {"send_method", "channel"} /\ NotYetOpen)
        => \A i \in 1..Len(emitted) :
              ~(emitted[i].type = "Method" /\ emitted[i].channel_number > 0)

\* C10: close() on an open connection emits one Channel.Close per channel
\* (and Connection.Close when there is none), and the call that follows it
\* emits nothing but Connection.Close.
C10_OnlyCloseFramesAfterClose ==
    [][(last_op.name = "close" /\ WasOpen)
        => /\ \A i \in 1..Len(emitted) :
                \/ IsMethod(emitted[i], "Connection.Close")
                \/ /\ IsMethod(emitted[i], "Channel.Close")
                   /\ emitted[i].channel_number \in pre._channels
           /\ \A i \in 1..Len(emitted') :
                IsMethod(emitted'[i], "Connection.Close")]_vars

\* the frames of that method the last entry point emitted, in order
EmittedOf(name) == SelectSeq(emitted, LAMBDA f : IsMethod(f, name))

\* the last entry point was on_data_available with that one awaited method
Processed(name) ==
    /\ last_op.name = "on_data_available"
    /\ Len(last_op.arg) = 1
    /\ IsMethod(last_op.arg[1], name)
    /\ name \in pre.pending

\* combine(client, server) as the negotiation is specified
combine(client, server) ==
    IF client = 0 THEN server
    ELSE IF server = 0 THEN client
    ELSE IF client <= server THEN client ELSE server

\* C11: the Connection.TuneOk that answers Connection.Tune carries, for each
\* of channel_max, frame_max and heartbeat, combine(client, server); client
\* (0, 131072, 0) and server (0, 0, 60) give frame_max 131072, heartbeat 60.
C11_TuneOkCombines ==
    Processed("Connection.Tune")
        => LET server == last_op.arg[1].args
           IN /\ EmittedOf("Connection.TuneOk") =
                    <<FrameMethod(0, "Connection.TuneOk",
                        <<combine(parameters.channel_max, server[1]),
                          combine(parameters.frame_max, server[2]),
                          combine(parameters.heartbeat, server[3])>>)>>
              /\ (/\ parameters.channel_max = 0
                  /\ parameters.frame_max = 131072
                  /\ parameters.heartbeat = 0
                  /\ server = <<0, 0, 60>>)
                  => EmittedOf("Connection.TuneOk")[1].args = <<0, 131072, 60>>

\* a Tune in which the server's frame_max is the smaller one and the client's
\* heartbeat the smaller one
C11_Witness ==
    /\ Processed("Connection.Tune")
    /\ parameters.frame_max = 131072 /\ last_op.arg[1].args[2] = 4096
    /\ parameters.heartbeat = 30 /\ last_op.arg[1].args[3] = 60
    /\ EmittedOf("Connection.TuneOk")[1].args[2] = 4096
    /\ EmittedOf("Connection.TuneOk")[1].args[3] = 30

\* C12: a non-zero negotiated frame_max below 4096 is stored in the
\* connection state and sent in Connection.TuneOk as 4096.
C12_FrameMaxClamped ==
    (/\ Processed("Connection.Tune")
     /\ combine(parameters.frame_max, last_op.arg[1].args[2]) \in 1..4095)
        => /\ state.frame_max = 4096
           /\ \A i \in 1..Len(emitted) :
                 IsMethod(emitted[i], "Connection.TuneOk")
                     => emitted[i].args[2] = 4096

\* the handshake frames of one connection attempt, in their order
HandshakeOrder ==
    <<"ProtocolHeader", "Connection.StartOk", "Connection.TuneOk",
      "Connection.Open">>

\* C13: the handshake frames written since the connection state was set up
\* are ProtocolHeader, StartOk, TuneOk, Open in that order, each at most
\* once; StartOk is emitted only by the processing of Connection.Start and
\* TuneOk only by that of Connection.Tune; Connection.Open is the frame
\* emitted right after TuneOk, and is emitted nowhere else.
C13_HandshakeOrder ==
    /\ Len(handshake) \in {0, 1, 2, 4}
    /\ handshake = SubSeq(HandshakeOrder, 1, Len(handshake))
    /\ Emitted("Connection.StartOk") => Processed("Connection.Start")
    /\ Emitted("Connection.TuneOk") => Processed("Connection.Tune")
    /\ \A i \in 1..Len(emitted) :
         /\ IsMethod(emitted[i], "Connection.TuneOk")
             => i < Len(emitted) /\ IsMethod(emitted[i + 1], "Connection.Open")
         /\ IsMethod(emitted[i], "Connection.Open")
             => i > 1 /\ IsMethod(emitted[i - 1], "Connection.TuneOk")

\* the Connection.Tune that completes the client's part of the handshake
C13_Witness ==
    /\ Processed("Connection.Tune")
    /\ handshake = HandshakeOrder
    /\ Len(emitted) = 2

\* C14: every on_open callback runs with is_open() true, whatever preceded
\* Connection.OpenOk; and is_open() is false as long as Connection.OpenOk,
\* which follows the whole handshake, has not been processed.
C14_OpenCallbacksSeeOpen ==
    /\ \A i \in 1..Len(fired) :
         fired[i].handle = "on_open_callback" => fired[i].is_open
    /\ is_open(Cur)
         => /\ handshake = HandshakeOrder
            /\ ~callbacks_pending(Cur, 0, "Connection.OpenOk")

\* the server's answer shows another protocol version: a ProtocolHeader
\* frame, or a Connection.Start of another version
VersionMismatch(frame) ==
    \/ frame.type = "ProtocolHeader"
    \/ /\ IsMethod(frame, "Connection.Start")
       /\ <<frame.args[1], frame.args[2]>> # PROTOCOL_VERSION

\* C15: when the server's first answer shows a protocol version mismatch,
\* the engine raises ProtocolVersionMismatch, emits no StartOk, and the
\* connection is Closed: closed set, open not.
C15_VersionMismatchCloses ==
    (/\ last_op.name = "on_data_available"
     /\ "Connection.Start" \in pre.pending
     /\ VersionMismatch(last_op.arg[1]))
        => /\ raised = "ProtocolVersionMismatch"
           /\ ~Emitted("Connection.StartOk")
           /\ closed /\ ~open

\* C16: when the credentials have no response for the server's Start, the
\* engine raises LoginError and emits no StartOk, with credentials passed in
\* the parameters as with the default credentials.
C16_NoResponseLoginError ==
    (/\ Processed("Connection.Start")
     /\ ~VersionMismatch(last_op.arg[1])
     /\ "PLAIN" \notin last_op.arg[1].args[3])
        => /\ raised = "LoginError"
           /\ ~Emitted("Connection.StartOk")

\* the channel limit in force: the negotiated channel_max, 32767 when it is 0
ChannelLimit ==
    IF state.channel_max # 0 THEN state.channel_max ELSE CHANNEL_MAX

\* C17: every key of _channels lies in 1..channel_max, whether it was
\* allocated or passed to channel().
C17_ChannelsWithinMax ==
    \A n \in _channels : 1 <= n /\ n <= ChannelLimit

\* C18: channel() without a number registers channel 1 when there is none
\* and max(existing) + 1 otherwise, and raises NoFreeChannels exactly when
\* the number of channels equals the limit; the raise leaves _channels and
\* the lifecycle flags as they were and emits nothing.
C18_Allocation ==
    last_op = Op("channel", <<0>>)
        => IF Cardinality(pre._channels) = ChannelLimit
           THEN /\ raised = "NoFreeChannels"
                /\ _channels = pre._channels
                /\ FlagsUnchanged
                /\ emitted = <<>>
           ELSE /\ raised = ""
                /\ \E n \in 1..(MaxChannel + 1) :
                     /\ _channels = pre._channels \cup {n}
                     /\ n \notin pre._channels
                     /\ IF pre._channels = {} THEN n = 1
                        ELSE /\ n - 1 \in pre._channels
                             /\ \A k \in pre._channels : k < n

\* NoFreeChannels with as many channels open as the negotiated channel_max,
\* more than one
C18_Witness ==
    /\ last_op = Op("channel", <<0>>)
    /\ raised = "NoFreeChannels"
    /\ state.channel_max = Cardinality(_channels)
    /\ Cardinality(_channels) > 1

\* C19: the Channel.CloseOk of a registered channel removes it from
\* _channels, and when the connection becomes Closed, by Connection.CloseOk
\* or by the adapter reporting the transport closed, _channels is empty.
C19_NoChannelSurvivesClose ==
    /\ \A n \in pre._channels :
         last_op = Op("on_data_available",
                      <<FrameMethod(n, "Channel.CloseOk", <<>>)>>)
             => n \notin _channels
    /\ (closed /\ ~pre.closed) => _channels = {}

\* the ContentBody frames the last entry point emitted, in order
BodyFrames == SelectSeq(emitted, LAMBDA f : f.type = "Body")

\* the fragments of a sequence of ContentBody frames, concatenated
Concatenated(frames) ==
    LET cat[i \in 0..Len(frames)] ==
            IF i = 0 THEN <<>> ELSE cat[i - 1] \o frames[i].args
    IN cat[Len(frames)]

\* C20: with frame_max >= 9, send_method of a body of length L emits
\* ceil(L / (frame_max - 8)) ContentBody frames, each of at most
\* frame_max - 8 bytes, whose fragments concatenated in order are the body;
\* frame_max 4096 and L = 10000 give fragments of 4088, 4088 and 1824 bytes.
C20_Fragmentation ==
    (last_op.name = "send_method" /\ Len(last_op.arg) = 3
     /\ state.frame_max >= 9)
        => LET body == last_op.arg[3]
               piece == state.frame_max - 8
           IN /\ Len(BodyFrames) = (Len(body) + piece - 1) \div piece
              /\ \A i \in 1..Len(BodyFrames) :
                    Len(BodyFrames[i].args) <= piece
              /\ Concatenated(BodyFrames) = body
              /\ (state.frame_max = 4096 /\ Len(body) = 10000)
                    => [i \in 1..Len(BodyFrames) |-> Len(BodyFrames[i].args)]
                        = <<4088, 4088, 1824>>

\* a body cut in three pieces, the last one shorter
C20_Witness ==
    /\ last_op.name = "send_method" /\ Len(last_op.arg) = 3
    /\ state.frame_max = 10
    /\ Len(last_op.arg[3]) = 5
    /\ Len(BodyFrames) = 3
    /\ Len(BodyFrames[3].args) = 1

\* the last entry point was send_method with content
SentContent == last_op.name = "send_method" /\ Len(last_op.arg) = 3

\* C21: send_method with content emits the Method frame, then exactly one
\* ContentHeader frame carrying len(body), then the ContentBody frames and
\* nothing else, for (properties, body) with or without properties, for an
\* empty body and for a bare body (stated for the frame sizes that leave
\* room for a piece).
C21_MethodHeaderBody ==
    (SentContent /\ state.frame_max >= 9)
        => /\ Len(emitted) = 2 + Len(BodyFrames)
           /\ IsMethod(emitted[1], "Basic.Publish")
           /\ emitted[2].type = "Header"
           /\ emitted[2].args[1] = Len(last_op.arg[3])
           /\ \A i \in 3..Len(emitted) : emitted[i].type = "Body"

\* C22: with frame_max 0, send_method of a non-empty body completes and cuts
\* the body in pieces of at most 131072 - 8 bytes; and with no frame_max a
\* connection reaches does the loop over the body run with a piece size
\* below 1.
C22_DefaultFrameMax ==
    (SentContent /\ last_op.arg[3] # <<>>)
        => /\ raised = ""
           /\ state.frame_max = 0
                => /\ \A i \in 1..Len(BodyFrames) :
                         Len(BodyFrames[i].args) <= 131072 - 8
                   /\ Concatenated(BodyFrames) = last_op.arg[3]
           /\ state.frame_max # 0
                => min(Len(last_op.arg[3]), state.frame_max - 8) >= 1

----------------------------------------------------------------------------
(* Inbound streaming *)

\* the bytes handed over so far
Fed == SubSeq(stream, 1, fed)

RECURSIVE FramesIn(_)
\* the frames that lie wholly in a prefix of a stream of marshalled frames
FramesIn(data) ==
    IF data = <<>> \/ Len(data) < FrameLen(data[1][2]) THEN <<>>
    ELSE <<data[1][2]>>
         \o FramesIn(SubSeq(data, FrameLen(data[1][2]) + 1, Len(data)))

RECURSIVE Leftover(_)
\* the bytes of the prefix after the last of these frames
Leftover(data) ==
    IF data = <<>> \/ Len(data) < FrameLen(data[1][2]) THEN data
    ELSE Leftover(SubSeq(data, FrameLen(data[1][2]) + 1, Len(data)))

\* the connection after the same bytes arrived as one chunk
OneChunk ==
    on_data_available_bytes(
        _on_connected([Connection_init(DefaultParameters)
                          EXCEPT !.transport = "connected"]),
        Fed)

\* C23: for the prefix handed over so far of a stream whose frames dispatch
\* without an error, whatever the chunks it arrived in: the frames
\* dispatched are the frames that lie wholly in the prefix, in order, the
\* bytes of the incomplete frame after them are retained, and the frames
\* dispatched and the engine's state are those of the prefix handed over as
\* one chunk.
C23_ChunkingInvisible ==
    (transport = "connected" /\ OneChunk.raised = "")
        => /\ [i \in 1..Len(dispatched) |-> dispatched[i].frame] = FramesIn(Fed)
           /\ buffer = Leftover(Fed)
           /\ dispatched = OneChunk.dispatched
           /\ buffer = OneChunk.buffer
           /\ bytes_received = OneChunk.bytes_received
           /\ <<open, closing, closed, _channels, callbacks, state, handshake>>
              = <<OneChunk.open, OneChunk.closing, OneChunk.closed,
                  OneChunk._channels, OneChunk.callbacks, OneChunk.state,
                  OneChunk.handshake>>

\* a stream of two frames handed over to its end, the second frame dispatched
\* by a chunk that held only the rest of it
C23_Witness ==
    /\ last_op.name = "on_data_available"
    /\ fed = Len(stream)
    /\ OneChunk.raised = ""
    /\ Len(dispatched) = 2
    /\ Len(last_op.arg) < FrameLen(dispatched[2].frame)
    /\ buffer = <<>>

\* C24: no exception leaves on_data_available, and after each call every
\* byte handed over so far has been consumed with a dispatched frame or is
\* retained in the buffer.
C24_NoInboundByteLost ==
    last_op.name = "on_data_available"
        => /\ raised = ""
           /\ fed = bytes_received + Len(buffer)

----------------------------------------------------------------------------
(* The rpc helper *)

\* the acceptable reply keys on_reply is registered under
Registered ==
    {i \in 1..Len(GetReplies) :
        \E j \in 1..Len(callbacks[<<1, GetReplies[i]>>]) :
            callbacks[<<1, GetReplies[i]>>][j].handle = "on_reply"}

\* C25: a call of rpc that emits its method leaves the callback registered
\* under every acceptable reply key, and once a reply has been dispatched to
\* the callback it is registered under none of them, so that no later frame
\* of one of those kinds invokes it.
C25_FirstReplyCancelsOthers ==
    /\ (last_op.name = "rpc" /\ Emitted("Basic.Get"))
            => Registered = 1..Len(GetReplies)
    /\ (last_op.name = "on_data_available"
            /\ \E i \in 1..Len(fired) : fired[i].handle = "on_reply")
            => Registered = {}

----------------------------------------------------------------------------
(* Reconnection *)

\* the step is a call of reconnect that reset the state and connects again
Reset ==
    /\ last_op' = Op("reconnect", <<>>)
    /\ transport' = "connecting"
    /\ handshake' = <<>> /\ first_written' = <<>>
    /\ closed' /\ ~open' /\ ~Truthy(closing')

\* C26: a call of reconnect resets the state only when the connection is
\* closed: in every other state of the lifecycle (during the handshake,
\* while open, while closing) the state it finds is left until the
\* connection has closed.
C26_ResetOnlyWhenClosed == [][Reset => closed]_vars

----------------------------------------------------------------------------
(* The heartbeat checker *)

\* the step is a tick of the checker's timer
TickStep == last_op' = Op("send_and_check", <<>>)

\* what a tick that counts makes of the idle counter
Counted ==
    IF bytes_received # checker._bytes_received THEN 0
    ELSE checker._idle_byte_intervals + 1

\* C27: on every tick the idle counter is reset to 0 when bytes_received
\* differs from the value captured at the previous tick and incremented by
\* exactly 1 when it does not.
C27_EveryTickCounts ==
    [][TickStep => checker'._idle_byte_intervals = Counted]_vars

C29_TickStaleOrHeartbeat ==
    [][TickStep =>
        \/ /\ Len(checker'.terminated) = Len(checker.terminated) + 1
           /\ disconnects' = 1
           /\ emitted' = <<>>
           /\ checker'.timer = checker.timer - 1
        \/ /\ checker'.terminated = checker.terminated
           /\ disconnects' = 0
           /\ emitted' = <<FrameHeartbeat>>
           /\ checker'.timer = checker.timer - 1
                                + (IF heartbeat # 0 THEN 1 ELSE 0)]_vars

\* a tick of a checker the connection has dropped: the frame is sent and the
\* timer is not set again
C29_Witness ==
    /\ last_op.name = "send_and_check"
    /\ heartbeat = 0
    /\ emitted = <<FrameHeartbeat>>
    /\ checker.timer = 0

----------------------------------------------------------------------------
(* Field tables *)

RECURSIVE Canonical(_)
\* a value with every Decimal in it normalized, so that values are equal as
\* Python compares them when they are the same
Canonical(value) ==
    CASE value[1] = "Decimal" /\ Len(value) = 3 -> normalize(value)
      [] value[1] = "dict" ->
            <<"dict", [k \in DOMAIN value[2] |-> Canonical(value[2][k])]>>
      [] value[1] = "list" ->
            <<"list", [i \in DOMAIN value[2] |-> Canonical(value[2][i])]>>
      [] OTHER -> value

\* C30: encode_table accepts every table of the six kinds of value,
\* decode_table returns a mapping equal to the table, and the offset it
\* returns is the number of bytes encode_table produced.
C30_TableRoundTrip ==
    roundtrip # <<>>
        => /\ roundtrip.error = ""
           /\ Canonical(<<"dict", roundtrip.result>>) = Canonical(<<"dict", table>>)
           /\ roundtrip.offset = Len(roundtrip.encoded)

----------------------------------------------------------------------------
(* The reconnection strategy's callback *)

\* C31: once the user's close() has set the close reason the reconnection
\* strategy's on_connection_closed is no longer registered under the
\* on-close key, and the step that completes this close does not invoke it.
C31_CloseRemovesStrategy ==
    /\ closing = DefaultReason
            => \A i \in 1..Len(OnCloseHandles) :
                    OnCloseHandles[i] # "on_connection_closed"
    /\ pre.closing = DefaultReason
            => \A i \in 1..Len(fired) : fired[i].handle # "on_connection_closed"

----------------------------------------------------------------------------
(* Routing of inbound frames *)

\* a dispatched frame that is neither a heartbeat nor on channel 0 and whose
\* channel number is not in _channels
Unrouted(d) ==
    /\ d.frame.type # "Heartbeat"
    /\ d.frame.channel_number > 0
    /\ d.frame.channel_number \notin _channels

\* C32: a frame addressed to a channel number that is not in _channels is
\* rejected without aborting the frames that follow it: the call that
\* dispatched it ends without an exception and every byte fed is either
\* counted as received or retained in the buffer.
C32_UnknownChannelRejected ==
    (/\ last_op.name = "on_data_available"
     /\ dispatched # <<>>
     /\ Unrouted(dispatched[Len(dispatched)]))
        => raised = "" /\ fed = bytes_received + Len(buffer)

----------------------------------------------------------------------------
(* Deferred reconnection *)

\* the step that completes a close for which reconnect() was requested
DeferredClose ==
    /\ \E i \in 1..Len(OnCloseHandles) : OnCloseHandles[i] = "_reconnect"
    /\ ~closed
    /\ closed'

\* C33: a reconnect() requested while the connection is open or closing is
\* performed when the current close completes: the step that completes the
\* close ends without an exception and starts one new connection attempt,
\* and the request is used up by it: no _reconnect stays registered for a
\* later close.
C33_ReconnectWhenCloseCompletes ==
    [][DeferredClose =>
        /\ raised' = ""
        /\ transport' = "connecting"
        /\ \A i \in 1..Len(OnCloseHandles') : OnCloseHandles'[i] # "_reconnect"
      ]_vars

----------------------------------------------------------------------------
(* Connection.Close on the wire *)

\* Connection.Close was emitted before the last entry point was entered and
\* the connection, which had become open, has not become Closed since: its
\* reply Connection.CloseOk was still awaited
CloseAwaited == pre.open /\ "Connection.CloseOk" \in pre.pending

\* C34: between becoming open and becoming Closed the connection emits
\* Connection.Close at most once: no entry point emits it twice, and none
\* emits it while the reply to an earlier one is awaited.
C34_CloseEmittedOnce ==
    /\ Cardinality(Positions(emitted, "Connection.Close")) <= 1
    /\ CloseAwaited => ~Emitted("Connection.Close")

----------------------------------------------------------------------------
(* Byte accounting *)

\* C35: inbound byte accounting is conserved: in every state since the last
\* reset, the bytes counted in bytes_received plus the bytes retained in the
\* inbound buffer are all the bytes fed to on_data_available.
C35_BytesConserved == bytes_received + Len(buffer) = fed

====
